---- MODULE Spec2Model ----
(***************************************************************************)
(* Model of scripts/embedPDFWithMetadata.py: the rule cascade of           *)
(* detect_metadata, the window loop of create_chunks, and the stages of    *)
(* main (delete_all_vectors, extract_text_from_pdf, create_chunks,         *)
(* generate_embeddings, upload_to_pinecone).                               *)
(*                                                                         *)
(* A text is a sequence of one-character strings.  Offsets named as in the *)
(* source (start, end, break_point) are 0-based, as in Python; sequence    *)
(* positions are 1-based.                                                  *)
(*                                                                         *)
(* Three state machines share the module:                                  *)
(*   Spec / FairSpec  one call of create_chunks, window by window           *)
(*   SpecClassify     one call of detect_metadata                          *)
(*   SpecPipe         one run of main against a vector index               *)
(***************************************************************************)
EXTENDS Integers, Sequences, FiniteSets, TLC

VARIABLES
    \* create_chunks
    pages,          \* the argument: sequence of [page_num, text]
    idx,            \* index of the page the for loop is at (1-based)
    start,          \* the cursor of the while loop
    chunks,         \* the list being built
    chunk_counter,  \* the module-level counter
    pc,             \* "for" | "while" | "done" | "idle"
    spans,          \* history: for each emitted chunk, where its text lies in its page
    trims,          \* history: the stripped length of every window, in order
    \* detect_metadata
    c_text, c_page, c_meta, c_pc,
    \* main
    m_pc,           \* the stage main is at
    env,            \* which of the environment variables are set
    prior,          \* history: the records of the index when the run starts
    index,          \* the vector index: the set of its records, one per id
    m_chunks,       \* chunks as returned to main by create_chunks
    embeddings,     \* generate_embeddings' list
    e_i,            \* generate_embeddings' loop variable i
    u_i,            \* upload_to_pinecone's loop variable i
    exit_status,    \* -1 while running, 0 or 1 at exit
    log             \* history: the external calls made, in order

chunkVars == <<pages, idx, start, chunks, chunk_counter, pc, spans, trims>>
classVars == <<c_text, c_page, c_meta, c_pc>>
pipeVars  == <<m_pc, env, prior, index, m_chunks, embeddings, e_i, u_i, exit_status, log>>
vars == <<chunkVars, classVars, pipeVars>>

----------------------------------------------------------------------------
\* CONFIG (lines 21-28) and the literals of create_chunks

chunk_size == 800
chunk_overlap == 150
embedding_batch_size == 100
upsert_batch_size == 100
min_chunk_len == 100

\* Bounds of the model
MaxChunks == 12        \* create_chunks is followed until this many chunks are emitted
CursorFloor == 2000    \* ... and while start >= -CursorFloor

Min(a, b) == IF a <= b THEN a ELSE b
Max(a, b) == IF a >= b THEN a ELSE b
Rep(c, n) == [i \in 1..n |-> c]

----------------------------------------------------------------------------
\* Python string primitives

\* str.lower() on the letters
UpperCase == <<"A","B","C","D","E","F","G","H","I","J","K","L","M","N","O","P","Q","R","S","T","U","V","W","X","Y","Z">>
LowerCase == <<"a","b","c","d","e","f","g","h","i","j","k","l","m","n","o","p","q","r","s","t","u","v","w","x","y","z">>
LowerChar(c) ==
    IF \E k \in 1..26 : UpperCase[k] = c
    THEN LowerCase[CHOOSE k \in 1..26 : UpperCase[k] = c]
    ELSE c
LowerText(t) == [i \in 1..Len(t) |-> LowerChar(t[i])]

\* the characters str.strip() removes
Whitespace == {" ", "\t", "\n", "\r", "\f"}

\* t[a:b]: a negative bound counts from the end, and both are clamped to 0..len
PyIndex(t, a) == IF a < 0 THEN Max(a + Len(t), 0) ELSE Min(a, Len(t))
PySlice(t, a, b) ==
    LET lo == PyIndex(t, a)
        hi == PyIndex(t, b)
    IN  IF lo >= hi THEN <<>> ELSE SubSeq(t, lo + 1, hi)

\* t.rfind(c): the 0-based index of the last c, or -1
RFind(t, c) ==
    IF \E i \in 1..Len(t) : t[i] = c
    THEN (CHOOSE i \in 1..Len(t) : t[i] = c /\ \A j \in (i+1)..Len(t) : t[j] # c) - 1
    ELSE -1

\* how many characters strip() removes at the head and at the tail
LeadWS(t) ==
    IF \A i \in 1..Len(t) : t[i] \in Whitespace THEN Len(t)
    ELSE (CHOOSE i \in 1..Len(t) : t[i] \notin Whitespace /\ \A j \in 1..(i-1) : t[j] \in Whitespace) - 1
TrailWS(t) ==
    IF \A i \in 1..Len(t) : t[i] \in Whitespace THEN 0
    ELSE Len(t) - (CHOOSE i \in 1..Len(t) : t[i] \notin Whitespace /\ \A j \in (i+1)..Len(t) : t[j] \in Whitespace)
Strip(t) == SubSeq(t, LeadWS(t) + 1, Len(t) - TrailWS(t))

\* re.search for the three shapes the patterns use; '.' is any character but a newline
At(t, i, lit) == i >= 1 /\ i + Len(lit) - 1 <= Len(t) /\ \A k \in 1..Len(lit) : t[i + k - 1] = lit[k]
HasLit(t, lit) == \E i \in 1..Len(t) : At(t, i, lit)
HasOpt(t, a, b) ==
    \E i \in 1..Len(t) :
        /\ At(t, i, a)
        /\ \/ At(t, i + Len(a), b)
           \/ (i + Len(a) <= Len(t) /\ t[i + Len(a)] # "\n" /\ At(t, i + Len(a) + 1, b))
HasStar(t, a, b) ==
    \E i \in 1..Len(t) :
        /\ At(t, i, a)
        /\ \E j \in (i + Len(a))..Len(t) :
              At(t, j, b) /\ \A k \in (i + Len(a))..(j - 1) : t[k] # "\n"

----------------------------------------------------------------------------
\* detect_metadata (lines 37-101)

\* line 46: re.search(r'check.?in|attendance|qr.?(code|scan)', text_lower)
PatAttendance(t) ==
    \/ HasOpt(t, <<"c", "h", "e", "c", "k">>, <<"i", "n">>)
    \/ HasLit(t, <<"a", "t", "t", "e", "n", "d", "a", "n", "c", "e">>)
    \/ HasOpt(t, <<"q", "r">>, <<"c", "o", "d", "e">>)
    \/ HasOpt(t, <<"q", "r">>, <<"s", "c", "a", "n">>)

\* line 51: re.search(r'register.*child|add.*child|child.*record|formal.?id', text_lower)
PatChildren(t) ==
    \/ HasStar(t, <<"r", "e", "g", "i", "s", "t", "e", "r">>, <<"c", "h", "i", "l", "d">>)
    \/ HasStar(t, <<"a", "d", "d">>, <<"c", "h", "i", "l", "d">>)
    \/ HasStar(t, <<"c", "h", "i", "l", "d">>, <<"r", "e", "c", "o", "r", "d">>)
    \/ HasOpt(t, <<"f", "o", "r", "m", "a", "l">>, <<"i", "d">>)

\* line 53: re.search(r'register|add', text_lower)
PatRegisterAdd(t) ==
    \/ HasLit(t, <<"r", "e", "g", "i", "s", "t", "e", "r">>)
    \/ HasLit(t, <<"a", "d", "d">>)

\* line 56: re.search(r'guardian|parent|emergency', text_lower)
PatGuardians(t) ==
    \/ HasLit(t, <<"g", "u", "a", "r", "d", "i", "a", "n">>)
    \/ HasLit(t, <<"p", "a", "r", "e", "n", "t">>)
    \/ HasLit(t, <<"e", "m", "e", "r", "g", "e", "n", "c", "y">>)

\* line 61: re.search(r'report|analytic|dashboard|statistic', text_lower)
PatReports(t) ==
    \/ HasLit(t, <<"r", "e", "p", "o", "r", "t">>)
    \/ HasLit(t, <<"a", "n", "a", "l", "y", "t", "i", "c">>)
    \/ HasLit(t, <<"d", "a", "s", "h", "b", "o", "a", "r", "d">>)
    \/ HasLit(t, <<"s", "t", "a", "t", "i", "s", "t", "i", "c">>)

\* line 66: re.search(r'staff.*management|volunteer.*assign|access.*level', text_lower)
PatStaff(t) ==
    \/ HasStar(t, <<"s", "t", "a", "f", "f">>, <<"m", "a", "n", "a", "g", "e", "m", "e", "n", "t">>)
    \/ HasStar(t, <<"v", "o", "l", "u", "n", "t", "e", "e", "r">>, <<"a", "s", "s", "i", "g", "n">>)
    \/ HasStar(t, <<"a", "c", "c", "e", "s", "s">>, <<"l", "e", "v", "e", "l">>)

\* line 71: re.search(r'email.*template|send.*email|smtp', text_lower)
PatEmail(t) ==
    \/ HasStar(t, <<"e", "m", "a", "i", "l">>, <<"t", "e", "m", "p", "l", "a", "t", "e">>)
    \/ HasStar(t, <<"s", "e", "n", "d">>, <<"e", "m", "a", "i", "l">>)
    \/ HasLit(t, <<"s", "m", "t", "p">>)

\* line 76: re.search(r'settings|configuration|api.*key|deployment', text_lower)
PatSettings(t) ==
    \/ HasLit(t, <<"s", "e", "t", "t", "i", "n", "g", "s">>)
    \/ HasLit(t, <<"c", "o", "n", "f", "i", "g", "u", "r", "a", "t", "i", "o", "n">>)
    \/ HasStar(t, <<"a", "p", "i">>, <<"k", "e", "y">>)
    \/ HasLit(t, <<"d", "e", "p", "l", "o", "y", "m", "e", "n", "t">>)

\* line 81: re.search(r'navigation|menu|button|sidebar', text_lower)
PatNavigation(t) ==
    \/ HasLit(t, <<"n", "a", "v", "i", "g", "a", "t", "i", "o", "n">>)
    \/ HasLit(t, <<"m", "e", "n", "u">>)
    \/ HasLit(t, <<"b", "u", "t", "t", "o", "n">>)
    \/ HasLit(t, <<"s", "i", "d", "e", "b", "a", "r">>)

\* line 86: re.search(r'error|troubleshoot|fix|debug', text_lower)
PatTroubleshooting(t) ==
    \/ HasLit(t, <<"e", "r", "r", "o", "r">>)
    \/ HasLit(t, <<"t", "r", "o", "u", "b", "l", "e", "s", "h", "o", "o", "t">>)
    \/ HasLit(t, <<"f", "i", "x">>)
    \/ HasLit(t, <<"d", "e", "b", "u", "g">>)

\* line 91: re.search(r'introduction|overview|getting.*started', text_lower)
PatOverview(t) ==
    \/ HasLit(t, <<"i", "n", "t", "r", "o", "d", "u", "c", "t", "i", "o", "n">>)
    \/ HasLit(t, <<"o", "v", "e", "r", "v", "i", "e", "w">>)
    \/ HasStar(t, <<"g", "e", "t", "t", "i", "n", "g">>, <<"s", "t", "a", "r", "t", "e", "d">>)
Meta(topic, task, role_min, page_num) ==
    [topic |-> topic, task |-> task, role_min |-> role_min, page |-> page_num]

\* the cascade with every branch an independent "if": a later match overrides
CascadeLastWins(t, page_num) ==
    LET m0 == Meta("general", "reference", 1, page_num)
        m1 == IF PatAttendance(t) THEN Meta("attendance", "procedure", 1, page_num) ELSE m0
        m2 == IF PatChildren(t)
              THEN Meta("children", IF PatRegisterAdd(t) THEN "procedure" ELSE "navigation", 3, page_num)
              ELSE m1
        m3 == IF PatGuardians(t) THEN Meta("guardians", "navigation", 3, page_num) ELSE m2
        m4 == IF PatReports(t) THEN Meta("reports", "navigation", 5, page_num) ELSE m3
        m5 == IF PatStaff(t) THEN Meta("staff_management", "navigation", 5, page_num) ELSE m4
        m6 == IF PatEmail(t) THEN Meta("email", "procedure", 5, page_num) ELSE m5
        m7 == IF PatSettings(t) THEN Meta("settings", "navigation", 10, page_num) ELSE m6
        m8 == IF PatNavigation(t) THEN Meta("navigation", "navigation", 1, page_num) ELSE m7
        m9 == IF PatTroubleshooting(t) THEN Meta("troubleshooting", "troubleshooting", 1, page_num) ELSE m8
    IN  IF PatOverview(t) THEN Meta("overview", "reference", 1, page_num) ELSE m9

Cascade(t, page_num) ==
        IF PatAttendance(t) THEN Meta("attendance", "procedure", 1, page_num)
        ELSE IF PatChildren(t)
             THEN Meta("children", IF PatRegisterAdd(t) THEN "procedure" ELSE "navigation", 3, page_num)
        ELSE IF PatGuardians(t) THEN Meta("guardians", "navigation", 3, page_num)
        ELSE IF PatReports(t) THEN Meta("reports", "navigation", 5, page_num)
        ELSE IF PatStaff(t) THEN Meta("staff_management", "navigation", 5, page_num)
        ELSE IF PatEmail(t) THEN Meta("email", "procedure", 5, page_num)
        ELSE IF PatSettings(t) THEN Meta("settings", "navigation", 10, page_num)
        ELSE IF PatNavigation(t) THEN Meta("navigation", "navigation", 1, page_num)
        ELSE IF PatTroubleshooting(t) THEN Meta("troubleshooting", "troubleshooting", 1, page_num)
        ELSE IF PatOverview(t) THEN Meta("overview", "reference", 1, page_num)
        ELSE Meta("general", "reference", 1, page_num)

\* text_lower = text.lower() (line 39), then the cascade on text_lower
detect_metadata(text, page_num) ==
    CHOOSE m \in { Cascade(text_lower, page_num) : text_lower \in {LowerText(text)} } : TRUE

----------------------------------------------------------------------------
\* create_chunks (lines 133-176)

\* f'chunk-{chunk_counter}' (line 168): the counter in decimal after the prefix
Digits == <<"0", "1", "2", "3", "4", "5", "6", "7", "8", "9">>
RECURSIVE Decimal(_)
Decimal(n) == IF n < 10 THEN <<Digits[n + 1]>> ELSE Decimal(n \div 10) \o <<Digits[(n % 10) + 1]>>
FormatId(n) == <<"c", "h", "u", "n", "k", "-">> \o Decimal(n)

\* text = page['text'] (line 141) of the page the for loop is at
Text == IF idx < Len(pages) THEN pages[idx + 1].text ELSE <<>>

\* lines 149-159: the window before it is stripped
RawChunk(text, s) ==
    LET end == Min(s + chunk_size, Len(text))
    IN  CHOOSE raw \in
            { IF end < Len(text)
              THEN LET last_period == RFind(chunk_text, ".")
                       last_newline == RFind(chunk_text, "\n")
                       break_point == Max(last_period, last_newline)
                   IN  IF 10 * break_point > 7 * chunk_size
                       THEN PySlice(text, s, s + break_point + 1)
                       ELSE chunk_text
              ELSE chunk_text
              : chunk_text \in {PySlice(text, s, end)} } : TRUE

\* line 164, with >= for > 
MeaningfulFrom100(chunk_text) == Len(chunk_text) >= min_chunk_len
\* line 164: if len(chunk_text) > 100
Meaningful(chunk_text) == Len(chunk_text) > min_chunk_len

\* line 172 left out
NextCounterStuck(c) == c
\* line 172: chunk_counter += 1
NextCounter(c) == c + 1

\* line 174 without the overlap
AdvanceNoOverlap(chunk_text) == Len(chunk_text)
\* line 174: start += (len(chunk_text) - CONFIG['chunk_overlap'])
Advance(chunk_text) == Len(chunk_text) - chunk_overlap

\* lines 165-171: the dict appended
NewChunk(chunk_text, page_num, counter) ==
    LET metadata == detect_metadata(chunk_text, page_num)
    IN  [id |-> FormatId(counter), text |-> chunk_text,
         topic |-> metadata.topic, task |-> metadata.task,
         role_min |-> metadata.role_min, page |-> metadata.page]

\* Where the stripped text of the window at cursor s lies in the page text:
\* [off, end) in 0-based offsets, with the cursor it was cut at.
SpanOf(text, s, raw, chunk_text) ==
    [page |-> idx + 1, cursor |-> s,
     off |-> PyIndex(text, s) + LeadWS(raw),
     end |-> PyIndex(text, s) + LeadWS(raw) + Len(chunk_text),
     lead |-> LeadWS(raw), trail |-> TrailWS(raw)]

\* for idx, page in enumerate(pages): the next page is entered (lines 140-142)
ForNext ==
    /\ pc = "for" /\ idx < Len(pages)
    /\ start' = 0
    /\ pc' = "while"
    /\ UNCHANGED <<pages, idx, chunks, chunk_counter, spans, trims, classVars, pipeVars>>

\* one iteration of the while loop (lines 148-174)
Window ==
    /\ pc = "while" /\ start < Len(Text)
    /\ start >= -CursorFloor /\ Len(chunks) < MaxChunks
    /\ \E raw \in {RawChunk(Text, start)} :
       \E chunk_text \in {Strip(raw)} :
           /\ IF Meaningful(chunk_text)
              THEN /\ chunks' = Append(chunks, NewChunk(chunk_text, pages[idx + 1].page_num, chunk_counter))
                   /\ chunk_counter' = NextCounter(chunk_counter)
                   /\ spans' = Append(spans, SpanOf(Text, start, raw, chunk_text))
              ELSE UNCHANGED <<chunks, chunk_counter, spans>>
           /\ start' = start + Advance(chunk_text)
           /\ trims' = Append(trims, Len(chunk_text))
    /\ UNCHANGED <<pages, idx, pc, classVars, pipeVars>>

\* the while condition is false (line 148): on to the next page
WhileExit ==
    /\ pc = "while" /\ ~(start < Len(Text))
    /\ idx' = idx + 1
    /\ pc' = "for"
    /\ UNCHANGED <<pages, start, chunks, chunk_counter, spans, trims, classVars, pipeVars>>

\* return chunks (line 176)
Return ==
    /\ pc = "for" /\ idx = Len(pages)
    /\ pc' = "done"
    /\ UNCHANGED <<pages, idx, start, chunks, chunk_counter, spans, trims, classVars, pipeVars>>

\* The page texts create_chunks is run on.  "a" stands for any character that
\* is neither whitespace nor a break character.
As(n) == Rep("a", n)
Spaces(n) == Rep(" ", n)
Sentences(c, n) == [i \in 1..(2 * n) |-> IF i % 2 = 1 THEN c ELSE "."]
PageTexts ==
    { As(100), As(101), As(150), As(200), As(2000),
      Sentences("a", 50) \o <<"\n">> \o Sentences("b", 50),
      As(650) \o Spaces(10) \o As(1140),
      <<"a">> \o Spaces(199),
      As(600) \o <<".">> \o As(400),
      As(560) \o <<".">> \o As(500),
      As(561) \o <<".">> \o As(500),
      As(700) \o <<"\n">> \o As(300),
      Spaces(20) \o As(300),
      As(120) \o Spaces(680) \o As(100),
      <<"a">> \o Spaces(799) \o As(1200),
      As(300) \o Spaces(500) \o As(300),
      <<"C", "h", "e", "c", "k", "-", "i", "n", " ", "a", "t", " ", "t", "h", "e", " ", "d", "e", "s", "k", ".", " ">> \o As(200),
      <<"T", "h", "e", " ", "R", "e", "p", "o", "r", "t", " ", "p", "a", "g", "e", ":", " ">> \o As(130) }
TwoPageTexts == { As(101), As(200), Spaces(20) \o As(300) }

Page(n, t) == [page_num |-> n, text |-> t]
\* The page lists: extract_text_from_pdf numbers pages from 1 and skips the
\* pages without text (lines 119-123), so page numbers may have gaps; a page
\* with an empty text is an argument create_chunks accepts as well.
PageLists ==
    {<<>>, <<Page(1, <<>>)>>}
    \cup { <<Page(1, t)>> : t \in PageTexts }
    \cup { <<Page(1, <<>>), Page(2, t)>> : t \in PageTexts }
    \cup { <<Page(2, t), Page(5, u)>> : t \in TwoPageTexts, u \in TwoPageTexts }

NoMeta == Meta("", "", 0, 0)
ClassIdle == c_text = <<>> /\ c_page = 0 /\ c_meta = NoMeta /\ c_pc = "idle"
ChunkIdle ==
    /\ pages = <<>> /\ idx = 0 /\ start = 0 /\ chunks = <<>>
    /\ chunk_counter = 0 /\ pc = "idle" /\ spans = <<>> /\ trims = <<>>
PipeIdle ==
    /\ m_pc = "idle" /\ env = <<>> /\ prior = {} /\ index = {} /\ m_chunks = <<>>
    /\ embeddings = <<>> /\ e_i = 0 /\ u_i = 0 /\ exit_status = -1 /\ log = <<>>

\* create_chunks is called with chunk_counter at its initial value (line 34)
Init ==
    /\ pages \in PageLists
    /\ idx = 0 /\ start = 0 /\ chunks = <<>> /\ chunk_counter = 0
    /\ pc = "for" /\ spans = <<>> /\ trims = <<>>
    /\ ClassIdle /\ PipeIdle

Next == ForNext \/ Window \/ WhileExit \/ Return

Spec == Init /\ [][Next]_vars

\* The page lists the loop is followed on under fairness: the example of
\* the specification's section 8, plain pages of several lengths, a page
\* after an empty one, a page cut at a newline and a page ending in blanks.
LoopPageLists ==
    { <<>>,
      <<Page(1, Sentences("a", 50) \o <<"\n">> \o Sentences("b", 50))>>,
      <<Page(1, As(150))>>,
      <<Page(1, As(200))>>,
      <<Page(1, As(2000))>>,
      <<Page(1, <<>>), Page(2, As(101))>>,
      <<Page(1, As(700) \o <<"\n">> \o As(300))>>,
      <<Page(1, As(650) \o Spaces(10) \o As(1140))>>,
      <<Page(1, <<"a">> \o Spaces(199))>> }

FairInit ==
    /\ pages \in LoopPageLists
    /\ idx = 0 /\ start = 0 /\ chunks = <<>> /\ chunk_counter = 0
    /\ pc = "for" /\ spans = <<>> /\ trims = <<>>
    /\ ClassIdle /\ PipeIdle

\* The loop is sequential code: a step that can be taken is taken.
FairSpec == FairInit /\ [][Next]_vars /\ WF_vars(Next)

----------------------------------------------------------------------------
\* Properties of create_chunks

Emitted == {w \in 1..Len(trims) : trims[w] > min_chunk_len}

\* C1: every chunk in the list has a stripped text longer than 100 characters,
\* at every cursor the loop reaches; the chunks and the counter count exactly
\* the windows whose stripped length is over 100, so a window of at most 100
\* appends nothing and leaves the counter alone.
C1_MinLength ==
    /\ \A k \in 1..Len(chunks) :
          /\ Len(chunks[k].text) > 100
          /\ LeadWS(chunks[k].text) = 0 /\ TrailWS(chunks[k].text) = 0
    /\ Len(chunks) = Cardinality(Emitted)
    /\ chunk_counter = Cardinality(Emitted)

\* a window was discarded, and a chunk was emitted at a cursor below 0
C1_Witness ==
    /\ \E w \in 1..Len(trims) : trims[w] <= min_chunk_len
    /\ \E k \in 1..Len(chunks) : spans[k].cursor < 0 /\ Len(chunks[k].text) > 100

\* the number an id names: the decimal digits after "chunk-"
DigitValue(d) == (CHOOSE v \in 1..10 : Digits[v] = d) - 1
RECURSIVE DecimalValue(_)
DecimalValue(ds) ==
    IF Len(ds) = 0 THEN 0
    ELSE 10 * DecimalValue(SubSeq(ds, 1, Len(ds) - 1)) + DigitValue(ds[Len(ds)])
IdNumber(id) == DecimalValue(SubSeq(id, 7, Len(id)))

\* C2: with the counter starting at 0, the k-th chunk emitted (k = 0, 1, ...)
\* has id "chunk-k": ids are distinct and increase in emission order, over
\* all pages, and the counter is the number of chunks emitted.
C2_SequentialIds ==
    /\ chunk_counter = Len(chunks)
    /\ \A k \in 1..Len(chunks) :
          /\ SubSeq(chunks[k].id, 1, 6) = <<"c", "h", "u", "n", "k", "-">>
          /\ Len(chunks[k].id) > 6
          /\ \A d \in 7..Len(chunks[k].id) : \E v \in 1..10 : Digits[v] = chunks[k].id[d]
          /\ IdNumber(chunks[k].id) = k - 1
    /\ \A j, k \in 1..Len(chunks) : j # k => chunks[j].id # chunks[k].id

\* ids of two digits are reached, on a page that is not the first
C2_Witness ==
    /\ Len(chunks) >= 11
    /\ chunks[11].id = <<"c", "h", "u", "n", "k", "-", "1", "0">>
    /\ spans[11].page = 2

\* C3: of two chunks emitted one after the other from the same page, the
\* later one's text begins at a strictly greater offset of the page text.
C3_LeftToRight ==
    \A k \in 1..(Len(spans) - 1) :
        spans[k].page = spans[k + 1].page => spans[k + 1].off > spans[k].off

\* C4 as stated: of two chunks emitted one after the other from the same
\* page, the later one's text starts no later than the end of the earlier
\* one's text minus chunk_overlap.
C4_TextOverlap ==
    \A k \in 1..(Len(spans) - 1) :
        spans[k].page = spans[k + 1].page => spans[k + 1].off <= spans[k].end - chunk_overlap

\* C4 as amended: the cursor, not the text.  After a chunk is emitted the
\* cursor stays at or below the end of that chunk's text minus chunk_overlap
\* for the rest of the page, so the window of the next chunk is cut at a
\* cursor no later than that.
C4_CursorOverlap ==
    /\ (pc = "while" /\ Len(spans) > 0 /\ spans[Len(spans)].page = idx + 1)
          => start <= spans[Len(spans)].end - chunk_overlap
    /\ \A k \in 1..(Len(spans) - 1) :
          spans[k].page = spans[k + 1].page => spans[k + 1].cursor <= spans[k].end - chunk_overlap

\* two chunks in a row from one page at cursors >= 0, the later one's text
\* starting past the earlier one's end minus chunk_overlap
C4_Witness ==
    \E k \in 1..(Len(spans) - 1) :
        /\ spans[k].page = spans[k + 1].page
        /\ spans[k].cursor >= 0 /\ spans[k + 1].cursor >= 0
        /\ spans[k + 1].lead > 0
        /\ spans[k + 1].off > spans[k].end - chunk_overlap

\* C10: on pages with non-empty text create_chunks returns: the loop of each
\* page ends after finitely many windows.  What a window does is determined
\* by the page text and the cursor alone, so a loop that ends never gets the
\* cursor it had back from a window (second conjunct): from there on it
\* would cut the same window for ever.
C10_Terminates ==
    /\ (\A p \in 1..Len(pages) : Len(pages[p].text) > 0) => <>(pc = "done")
    /\ [][(pc = "while" /\ pc' = "while") => start' # start]_vars

\* Why it does not: a window never reaches past the end of the text, so line
\* 174 leaves start at most len(text) - chunk_overlap, and the condition of
\* line 148 is true again.
LoopConditionStays ==
    (pc = "while" /\ Len(Text) > 0) => start <= Max(0, Len(Text) - chunk_overlap)

----------------------------------------------------------------------------
\* One call of detect_metadata

\* The texts it is called on: two words of the patterns' vocabulary (in the
\* case a manual writes them, with near misses such as "prefix" and
\* "checkin") joined by a blank, a newline or a comma and a blank.
ClassifierWords ==
    { <<"C", "h", "e", "c", "k", "-", "i", "n">>,
      <<"c", "h", "e", "c", "k", "i", "n">>,
      <<"Q", "R", " ", "c", "o", "d", "e">>,
      <<"A", "t", "t", "e", "n", "d", "a", "n", "c", "e">>,
      <<"R", "e", "g", "i", "s", "t", "e", "r">>,
      <<"c", "h", "i", "l", "d">>,
      <<"a", "d", "d">>,
      <<"r", "e", "c", "o", "r", "d">>,
      <<"F", "o", "r", "m", "a", "l", " ", "I", "D">>,
      <<"g", "u", "a", "r", "d", "i", "a", "n">>,
      <<"P", "a", "r", "e", "n", "t">>,
      <<"r", "e", "p", "o", "r", "t">>,
      <<"D", "a", "s", "h", "b", "o", "a", "r", "d">>,
      <<"s", "t", "a", "f", "f">>,
      <<"m", "a", "n", "a", "g", "e", "m", "e", "n", "t">>,
      <<"a", "c", "c", "e", "s", "s">>,
      <<"l", "e", "v", "e", "l">>,
      <<"e", "m", "a", "i", "l">>,
      <<"t", "e", "m", "p", "l", "a", "t", "e">>,
      <<"s", "e", "n", "d">>,
      <<"S", "M", "T", "P">>,
      <<"s", "e", "t", "t", "i", "n", "g", "s">>,
      <<"A", "P", "I">>,
      <<"k", "e", "y">>,
      <<"m", "e", "n", "u">>,
      <<"s", "i", "d", "e", "b", "a", "r">>,
      <<"e", "r", "r", "o", "r">>,
      <<"p", "r", "e", "f", "i", "x">>,
      <<"o", "v", "e", "r", "v", "i", "e", "w">>,
      <<"g", "e", "t", "t", "i", "n", "g">>,
      <<"s", "t", "a", "r", "t", "e", "d">>,
      <<"h", "e", "l", "l", "o">> }
ClassifierSeparators == { <<" ">>, <<"\n">>, <<",", " ">> }
ClassifierTexts ==
    { w1 \o sep \o w2 : w1 \in ClassifierWords, sep \in ClassifierSeparators, w2 \in ClassifierWords }

ClassInit ==
    /\ c_text \in ClassifierTexts /\ c_page \in {1, 7}
    /\ c_meta = NoMeta /\ c_pc = "call"
    /\ ChunkIdle /\ PipeIdle

\* metadata = detect_metadata(chunk_text, page['page_num']) (line 165)
Classify ==
    /\ c_pc = "call"
    /\ c_meta' = detect_metadata(c_text, c_page)
    /\ c_pc' = "done"
    /\ UNCHANGED <<c_text, c_page, chunkVars, pipeVars>>

SpecClassify == ClassInit /\ [][Classify]_vars

\* The rules in the order of section 4.1 of the specification, as a table.
RuleTopics == <<"attendance", "children", "guardians", "reports", "staff_management",
                "email", "settings", "navigation", "troubleshooting", "overview">>
RuleTasks == <<"procedure", "procedure", "navigation", "navigation", "navigation",
               "procedure", "navigation", "navigation", "troubleshooting", "reference">>
RuleRoles == <<1, 3, 3, 5, 5, 5, 10, 1, 1, 1>>
RuleMatches(k, t) ==
    CASE k = 1 -> PatAttendance(t)
      [] k = 2 -> PatChildren(t)
      [] k = 3 -> PatGuardians(t)
      [] k = 4 -> PatReports(t)
      [] k = 5 -> PatStaff(t)
      [] k = 6 -> PatEmail(t)
      [] k = 7 -> PatSettings(t)
      [] k = 8 -> PatNavigation(t)
      [] k = 9 -> PatTroubleshooting(t)
      [] k = 10 -> PatOverview(t)

\* C5: detect_metadata returns the triple of the first rule, in the order
\* attendance, children, guardians, reports, staff_management, email,
\* settings, navigation, troubleshooting, overview, whose pattern matches the
\* lower-cased text, and (general, reference, 1) when none does; under the
\* children rule the task is "procedure" exactly when the register/add
\* pattern matches, else "navigation"; the page is the argument.
C5_FirstRuleWins ==
    c_pc = "done" =>
        \E t \in {LowerText(c_text)} :
            LET hits == {k \in 1..10 : RuleMatches(k, t)}
                first == CHOOSE k \in hits : \A j \in hits : k <= j
            IN  /\ c_meta.page = c_page
                /\ DOMAIN c_meta = {"topic", "task", "role_min", "page"}
                /\ IF hits = {}
                   THEN c_meta.topic = "general" /\ c_meta.task = "reference" /\ c_meta.role_min = 1
                   ELSE /\ c_meta.topic = RuleTopics[first]
                        /\ c_meta.role_min = RuleRoles[first]
                        /\ c_meta.task = IF first = 2 /\ ~PatRegisterAdd(t)
                                         THEN "navigation"
                                         ELSE RuleTasks[first]

\* a text matching both the check-in rule and the report rule was classified
C5_Witness ==
    /\ c_pc = "done"
    /\ PatAttendance(LowerText(c_text)) /\ PatReports(LowerText(c_text))
    /\ c_meta.topic = "attendance" /\ c_meta.task = "procedure" /\ c_meta.role_min = 1

----------------------------------------------------------------------------
\* main (lines 286-332) and the stages it calls

\* Bounds of the model
MaxRunChunks == 201     \* the longest chunk list a run embeds
MaxPriorRecords == 205  \* the most records the index holds before a run

\* The chunk lists create_chunks hands to generate_embeddings: n chunks
\* numbered from 0 in emission order (C2).  The text stands for the chunk's
\* text, which the later stages only pass on.
RunChunk(k) ==
    [id |-> FormatId(k), text |-> <<"t">> \o Decimal(k),
     topic |-> "general", task |-> "reference", role_min |-> 1, page |-> 1 + (k \div 10)]
RunChunks(n) == [k \in 1..n |-> RunChunk(k - 1)]
RunChunkCounts == {0, 1, 99, 100, 101, 200, MaxRunChunks}

\* The embedding service (lines 195-199): one vector per input text, in the
\* order of the request.  The vector of a text is determined by the text.
EmbeddingOf(text) == <<"vector", text>>
EmbeddingsResponse(texts) == [j \in 1..Len(texts) |-> [embedding |-> EmbeddingOf(texts[j])]]

\* chunks[i:i + batch_size] cut one short
BatchDropsLast(seq, i, batch_size) == SubSeq(seq, i + 1, Min(i + batch_size - 1, Len(seq)))
\* lines 187, 242: seq[i:i + batch_size], for 0 <= i
Batch(seq, i, batch_size) == SubSeq(seq, i + 1, Min(i + batch_size, Len(seq)))

\* lines 202-206: each returned vector joined to the chunk at its position
WithEmbeddings(batch, data) ==
    [j \in 1..Len(data) |->
        [id |-> batch[j].id, text |-> batch[j].text, topic |-> batch[j].topic,
         task |-> batch[j].task, role_min |-> batch[j].role_min, page |-> batch[j].page,
         embedding |-> data[j].embedding]]

\* lines 225-237: the vector built from an item of embeddings
Vector(item) ==
    [id |-> item.id, values |-> item.embedding,
     metadata |-> [text |-> item.text, page |-> item.page, topic |-> item.topic,
                   task |-> item.task, role_min |-> item.role_min,
                   source |-> "NextGen-User Manual.pdf", type |-> "documentation"]]
Vectors(items) == [j \in 1..Len(items) |-> Vector(items[j])]

\* an upsert that leaves a record already stored under the id as it is
UpsertKeepsStored(ix, batch) ==
    ix \cup {batch[j] : j \in {j \in 1..Len(batch) : \A r \in ix : r.id # batch[j].id}}
\* index.upsert(vectors=batch) (line 243): each vector replaces the record of its id
Upsert(ix, batch) ==
    {r \in ix : \A j \in 1..Len(batch) : batch[j].id # r.id} \cup {batch[j] : j \in 1..Len(batch)}

\* A record an earlier run left in the index under the id chunk-k.
StaleRecord(k) ==
    [id |-> FormatId(k), values |-> <<"vector", <<"o", "l", "d">> \o Decimal(k)>>,
     metadata |-> [text |-> <<"o", "l", "d">> \o Decimal(k), page |-> 1, topic |-> "general",
                   task |-> "reference", role_min |-> 1,
                   source |-> "NextGen-User Manual.pdf", type |-> "documentation"]]
PriorIndexes == { {StaleRecord(k) : k \in 0..(n - 1)} : n \in {0, 2, MaxPriorRecords} }

\* What a delete that raised may have removed: nothing, or part of the records.
AfterFailedDelete(ix) == { ix, {r \in ix : r.id[Len(r.id)] \in {"1", "3", "5", "7", "9"}} }

\* os.getenv of the three variables main reads (lines 291-296): set or not
Environments ==
    { [OPENAI_API_KEY |-> a, PINECONE_API_KEY |-> b, PINECONE_INDEX_NAME |-> c] :
        a, b, c \in BOOLEAN }

\* an entry of log: the step, the loop index it was made at, and how it ended
Call(name, at, result) == [call |-> name, at |-> at, result |-> result]

PipeInit ==
    /\ m_pc = "validate"
    /\ env \in Environments
    /\ prior \in PriorIndexes /\ index = prior
    /\ m_chunks = <<>> /\ embeddings = <<>> /\ e_i = 0 /\ u_i = 0
    /\ exit_status = -1 /\ log = <<>>
    /\ ChunkIdle /\ ClassIdle

\* lines 328-332: the except clause of main: exit(1)
Abort(entry) ==
    /\ m_pc' = "exited"
    /\ exit_status' = 1
    /\ log' = Append(log, entry)

\* lines 291-296: both ValueErrors
Validate ==
    /\ m_pc = "validate"
    /\ IF ~env.OPENAI_API_KEY \/ ~env.PINECONE_API_KEY \/ ~env.PINECONE_INDEX_NAME
       THEN Abort(Call("validate", 0, "error"))
       ELSE /\ m_pc' = "delete"
            /\ log' = Append(log, Call("validate", 0, "ok"))
            /\ UNCHANGED exit_status
    /\ UNCHANGED <<env, prior, index, m_chunks, embeddings, e_i, u_i, chunkVars, classVars>>

\* the except clause of delete_all_vectors re-raising
AfterDeleteErrorRaises(outcome) == "exited"
\* lines 259-265: both branches print and fall through to the return
AfterDeleteError(outcome) == "read"

\* delete_all_vectors (lines 250-265).  The outcome of lines 255-256 is the
\* index's: done, an exception whose text holds '404', or another exception.
delete_all_vectors ==
    /\ m_pc = "delete"
    /\ \E outcome \in {"ok", "404", "error"} :
          IF outcome = "ok"
          THEN /\ index' = {}
               /\ log' = log \o <<Call("delete", 0, "ok"), Call("sleep", 3, "ok")>>
               /\ m_pc' = "read"
               /\ UNCHANGED exit_status
          ELSE /\ index' \in AfterFailedDelete(index)
               /\ m_pc' = AfterDeleteError(outcome)
               /\ log' = Append(log, Call("delete", 0, outcome))
               /\ exit_status' = IF m_pc' = "exited" THEN 1 ELSE exit_status
    /\ UNCHANGED <<env, prior, m_chunks, embeddings, e_i, u_i, chunkVars, classVars>>

\* extract_text_from_pdf (lines 104-130) as main sees it: pages, or an exception
extract_text_from_pdf ==
    /\ m_pc = "read"
    /\ \E ok \in BOOLEAN :
          IF ok
          THEN /\ m_pc' = "chunk"
               /\ log' = Append(log, Call("read", 0, "ok"))
               /\ UNCHANGED exit_status
          ELSE Abort(Call("read", 0, "error"))
    /\ UNCHANGED <<env, prior, index, m_chunks, embeddings, e_i, u_i, chunkVars, classVars>>

\* chunks = create_chunks(pages) (line 306), then generate_embeddings is
\* entered (lines 183-184).  The loop of create_chunks is the subject of
\* Spec; here it has returned a list.
create_chunks ==
    /\ m_pc = "chunk"
    /\ \E n \in RunChunkCounts : m_chunks' = RunChunks(n)
    /\ embeddings' = <<>> /\ e_i' = 0
    /\ m_pc' = "embed"
    /\ log' = Append(log, Call("chunk", 0, "ok"))
    /\ UNCHANGED <<env, prior, index, u_i, exit_status, chunkVars, classVars>>

\* a failed request tried again, from the same i
AfterEmbedErrorRetries(i) == "embed"
\* line 195 raises: nothing in generate_embeddings catches it
AfterEmbedError(i) == "exited"

\* one iteration of the loop of generate_embeddings (lines 186-210)
EmbedBatch ==
    /\ m_pc = "embed" /\ e_i < Len(m_chunks)
    /\ \E ok \in BOOLEAN :
          IF ok
          THEN \E batch \in {Batch(m_chunks, e_i, embedding_batch_size)} :
                  /\ embeddings' = embeddings \o
                        WithEmbeddings(batch, EmbeddingsResponse([j \in 1..Len(batch) |-> batch[j].text]))
                  /\ e_i' = e_i + embedding_batch_size
                  /\ log' = Append(log, Call("embed", e_i, "ok"))
                  /\ UNCHANGED <<m_pc, exit_status>>
          ELSE /\ m_pc' = AfterEmbedError(e_i)
               /\ exit_status' = IF m_pc' = "exited" THEN 1 ELSE exit_status
               /\ log' = Append(log, Call("embed", e_i, "error"))
               /\ UNCHANGED <<embeddings, e_i>>
    /\ UNCHANGED <<env, prior, index, m_chunks, u_i, chunkVars, classVars>>

\* the range is exhausted: return embeddings (line 213); upload_to_pinecone
\* opens the index (line 220) and builds the vectors (lines 223-237)
OpenIndex ==
    /\ m_pc = "embed" /\ ~(e_i < Len(m_chunks))
    /\ \E ok \in BOOLEAN :
          IF ok
          THEN /\ m_pc' = "upsert"
               /\ u_i' = 0
               /\ log' = Append(log, Call("open", 0, "ok"))
               /\ UNCHANGED exit_status
          ELSE /\ Abort(Call("open", 0, "error"))
               /\ UNCHANGED u_i
    /\ UNCHANGED <<env, prior, index, m_chunks, embeddings, e_i, chunkVars, classVars>>

\* one iteration of the loop of upload_to_pinecone (lines 241-245); an
\* upsert that raises may or may not have been applied by the index
UpsertBatch ==
    /\ m_pc = "upsert" /\ u_i < Len(embeddings)
    /\ \E batch \in {Batch(Vectors(embeddings), u_i, upsert_batch_size)} :
       \E ok \in BOOLEAN :
          IF ok
          THEN /\ index' = Upsert(index, batch)
               /\ u_i' = u_i + upsert_batch_size
               /\ log' = Append(log, Call("upsert", u_i, "ok"))
               /\ UNCHANGED <<m_pc, exit_status>>
          ELSE /\ index' \in {index, Upsert(index, batch)}
               /\ Abort(Call("upsert", u_i, "error"))
               /\ UNCHANGED u_i
    /\ UNCHANGED <<env, prior, m_chunks, embeddings, e_i, chunkVars, classVars>>

\* the range is exhausted: the summary is printed and main returns (lines 318-326)
Finish ==
    /\ m_pc = "upsert" /\ ~(u_i < Len(embeddings))
    /\ m_pc' = "done"
    /\ exit_status' = 0
    /\ UNCHANGED <<env, prior, index, m_chunks, embeddings, e_i, u_i, log, chunkVars, classVars>>

PipeNext ==
    \/ Validate \/ delete_all_vectors \/ extract_text_from_pdf \/ create_chunks
    \/ EmbedBatch \/ OpenIndex \/ UpsertBatch \/ Finish

SpecPipe == PipeInit /\ [][PipeNext]_vars

----------------------------------------------------------------------------
\* Properties of the run

EntriesOf(name) == SelectSeq(log, LAMBDA e : e.call = name)
Failed(name) == \E k \in 1..Len(log) : log[k].call = name /\ log[k].result # "ok"

\* C6: while every embedding request has succeeded, the requests were made
\* at i = 0, 100, 200, ... in that order, embeddings holds one item for each
\* chunk sent so far, at the chunk's position and with the chunk's id and the
\* vector of the chunk's text; once generate_embeddings has returned the two
\* lists have the same length.  The upserts take the vectors the same way.
C6_OrderAndCount ==
    ~Failed("embed") =>
        LET reqs == EntriesOf("embed")
            ups == EntriesOf("upsert")
        IN  /\ \A k \in 1..Len(reqs) : reqs[k].at = 100 * (k - 1) /\ reqs[k].at < Len(m_chunks)
            /\ Len(embeddings) = Min(100 * Len(reqs), Len(m_chunks))
            /\ \A i \in 1..Len(embeddings) :
                  /\ embeddings[i].id = m_chunks[i].id
                  /\ embeddings[i].text = m_chunks[i].text
                  /\ embeddings[i].embedding = EmbeddingOf(m_chunks[i].text)
            /\ m_pc \in {"upsert", "done"} => Len(embeddings) = Len(m_chunks)
            /\ \A k \in 1..Len(ups) : ups[k].at = 100 * (k - 1) /\ ups[k].at < Len(m_chunks)
            /\ m_pc = "done" => 100 * Len(ups) >= Len(m_chunks)

\* a run of 201 chunks, three batches, has completed
C6_Witness ==
    /\ m_pc = "done" /\ Len(m_chunks) = 201 /\ Len(embeddings) = 201
    /\ Len(EntriesOf("embed")) = 3

\* the record of the index a chunk of this run should have
RecordOf(c) ==
    [id |-> c.id, values |-> EmbeddingOf(c.text),
     metadata |-> [text |-> c.text, page |-> c.page, topic |-> c.topic, task |-> c.task,
                   role_min |-> c.role_min,
                   source |-> "NextGen-User Manual.pdf", type |-> "documentation"]]
RunRecords == {RecordOf(m_chunks[k]) : k \in 1..Len(m_chunks)}

\* C7 as stated: after a run that completes, the index holds exactly the
\* records of this run's chunks, whatever it held before and however the
\* clear step ended.
C7_IndexExact == m_pc = "done" => index = RunRecords

\* C7 as amended: after a run that completes, the index holds the record of
\* each chunk of this run, one record per id; if the delete succeeded it
\* holds nothing else; any other record it holds was there before the run,
\* under an id this run did not produce.
C7_IndexAfterRun ==
    m_pc = "done" =>
        /\ RunRecords \subseteq index
        /\ \A r1, r2 \in index : r1.id = r2.id => r1 = r2
        /\ ~Failed("delete") => index = RunRecords
        /\ \A r \in index \ RunRecords :
              r \in prior /\ \A k \in 1..Len(m_chunks) : m_chunks[k].id # r.id

\* a run completed after a failed delete, on an index that held more records
\* than the run produced, and overwrote the records of its own ids
C7_Witness ==
    /\ m_pc = "done" /\ Failed("delete")
    /\ Len(m_chunks) >= 1 /\ Cardinality(prior) > Len(m_chunks)
    /\ RunRecords \subseteq index /\ index # RunRecords

StageRank(name) ==
    CASE name = "validate" -> 1 [] name = "delete" -> 2 [] name = "sleep" -> 3
      [] name = "read" -> 4 [] name = "chunk" -> 5 [] name = "embed" -> 6
      [] name = "open" -> 7 [] name = "upsert" -> 8

\* C8: a delete that fails, with or without '404', does not end the run: the
\* next step is the read, and the stages follow in order.  The wait comes
\* only right after a delete that succeeded.  A failure of any other step is
\* the last step of the run, which ends with exit status 1; a run ends with
\* status 1 only so.
C8_OnlyClearSwallowed ==
    /\ \A k \in 1..Len(log) :
          /\ (log[k].call = "delete" /\ log[k].result # "ok") =>
                /\ ~(k = Len(log) /\ m_pc = "exited")
                /\ k < Len(log) => log[k + 1].call = "read"
          /\ (log[k].call # "delete" /\ log[k].result # "ok") =>
                k = Len(log) /\ m_pc = "exited" /\ exit_status = 1
          /\ log[k].call = "sleep" =>
                k > 1 /\ log[k - 1].call = "delete" /\ log[k - 1].result = "ok"
          /\ (log[k].call = "delete" /\ log[k].result = "ok") =>
                k < Len(log) /\ log[k + 1].call = "sleep"
          /\ k < Len(log) => StageRank(log[k].call) <= StageRank(log[k + 1].call)
    /\ (m_pc = "exited" \/ exit_status = 1) =>
          /\ m_pc = "exited" /\ exit_status = 1
          /\ Len(log) > 0 /\ log[Len(log)].result # "ok" /\ log[Len(log)].call # "delete"
    /\ m_pc = "done" => exit_status = 0

\* after a delete that failed without '404' the run went on through the
\* first upsert and was ended by the failure of the second
C8_Witness ==
    /\ \E k \in 1..Len(log) : log[k] = Call("delete", 0, "error")
    /\ \E k \in 1..Len(log) : log[k] = Call("upsert", 0, "ok")
    /\ log[Len(log)] = Call("upsert", 100, "error")
    /\ m_pc = "exited" /\ exit_status = 1

\* C9: no embedding batch is requested twice; once an embedding request has
\* failed no upsert is made and the index holds nothing of this run; an
\* upsert is made only after every batch of the run was embedded.
C9_NoPartialPersist ==
    /\ \A j, k \in 1..Len(log) :
          (j # k /\ log[j].call = "embed" /\ log[k].call = "embed") => log[j].at # log[k].at
    /\ Failed("embed") =>
          /\ Len(EntriesOf("upsert")) = 0
          /\ index \subseteq prior
    /\ Len(EntriesOf("upsert")) > 0 =>
          /\ ~Failed("embed")
          /\ 100 * Len(EntriesOf("embed")) >= Len(m_chunks)
          /\ Len(embeddings) = Len(m_chunks)

\* the second batch failed after the first was embedded: the run ended with
\* 100 embeddings in hand and no upsert
C9_Witness ==
    /\ m_pc = "exited"
    /\ \E k \in 1..Len(log) : log[k] = Call("embed", 0, "ok")
    /\ log[Len(log)] = Call("embed", 100, "error")
    /\ Len(embeddings) = 100 /\ Len(EntriesOf("upsert")) = 0

====
